---- MODULE Spec2Model ----
(***************************************************************************)
(* Model of games/referencegame/instancegenerator.py: the edit-distance    *)
(* matrix (get_distances), the distractor search (select_distractors),     *)
(* the triplet builder (generate_samples) and the instance expansion       *)
(* (ReferenceGameInstanceGenerator.on_generate).                           *)
(*                                                                         *)
(* Strings are sequences of one-character strings.  List indices are the   *)
(* 0-based indices of the Python source; a Python list l is a TLA+         *)
(* sequence, and l[k] in Python is l[k + 1] here.                          *)
(***************************************************************************)
EXTENDS Integers, Sequences, FiniteSets, TLC

VARIABLES
    pc,             \* position of the running function
    \* select_distractors
    target_grid, distance_list, id1, id2, min_distance, found1, found2, selected,
    \* get_distances
    grids, distances, i_distances, i, j,
    \* generate_samples
    edit_distances, target_grid_id, samples,
    \* on_generate
    lang, grids_file, group_idx, instances, game_counter, sample_idx, slot

selVars  == <<target_grid, distance_list, id1, id2, min_distance, found1, found2, selected>>
distVars == <<distances, i_distances, i, j>>
sampVars == <<edit_distances, target_grid_id, samples>>
genVars  == <<lang, grids_file, group_idx, instances, game_counter, sample_idx, slot>>
vars     == <<pc, selVars, grids, distVars, sampVars, genVars>>

(***************************************************************************)
(* Bounds of the model.                                                    *)
(***************************************************************************)
MaxRow  == 4        \* longest distance row given to select_distractors
MaxDist == 3        \* largest distance in such a row
MaxStrLen == 2      \* longest grid string given to get_distances alone
MaxDistGrids == 2   \* largest group given to get_distances alone
GridLen == 2        \* length of the grid strings given to generate_samples
MaxGrids == 4       \* largest group given to generate_samples
GenMaxGrids == 3    \* largest group of the file read by on_generate

\* The characters of a grid string.
Alphabet == {"0", "1"}

\* The threshold is a Python int and has no upper limit; the model stops
\* counting once it is past every value a row can hold.
MinDistanceCap == MaxDist + 2

(***************************************************************************)
(* Python's None, list membership, list.index and slices.                  *)
(***************************************************************************)
None == -1

SeqsUpTo(S, n) == UNION {[1..k -> S] : k \in 0..n}

\* x in l
Contains(l, x) == \E k \in 1..Len(l) : l[k] = x

\* l.index(x, start): the first 0-based index >= start that holds x
IndexFrom(l, x, start) ==
    (CHOOSE k \in (start + 1)..Len(l) :
        l[k] = x /\ \A m \in (start + 1)..(k - 1) : l[m] # x) - 1

\* l.index(x)
Index(l, x) == IndexFrom(l, x, 0)

\* x in l[start:]
ContainsFrom(l, x, start) == \E k \in (start + 1)..Len(l) : l[k] = x

(***************************************************************************)
(* select_distractors: the locals before the loop, one pass of the while   *)
(* loop, and the whole call.                                               *)
(***************************************************************************)
\* A slip: the search starts at distance 0, the distance of the target itself.
MutSelectInitZero ==
    [id1 |-> None, id2 |-> None, min_distance |-> 0,
     found1 |-> FALSE, found2 |-> FALSE]

\* A slip: the search starts at distance 2.
MutSelectInitTwo ==
    [id1 |-> None, id2 |-> None, min_distance |-> 2,
     found1 |-> FALSE, found2 |-> FALSE]

SelectInit ==
    [id1 |-> None, id2 |-> None, min_distance |-> 1,
     found1 |-> FALSE, found2 |-> FALSE]

\* A slip: the second id is taken without checking that it differs from id1.
MutSelectStepSameId(dl, s) ==
    IF Contains(dl, s.min_distance)
    THEN IF ~s.found1
         THEN [s EXCEPT !.id1 = Index(dl, s.min_distance), !.found1 = TRUE]
         ELSE [s EXCEPT !.id2 = Index(dl, s.min_distance), !.found2 = TRUE]
    ELSE [s EXCEPT !.min_distance = @ + 1]

\* A slip: no scan for a second index at id1's own distance.
MutSelectStepNoTieScan(dl, s) ==
    IF Contains(dl, s.min_distance)
    THEN IF ~s.found1
         THEN [s EXCEPT !.id1 = Index(dl, s.min_distance), !.found1 = TRUE]
         ELSE IF s.id1 # Index(dl, s.min_distance)
         THEN [s EXCEPT !.id2 = Index(dl, s.min_distance), !.found2 = TRUE]
         ELSE [s EXCEPT !.min_distance = @ + 1]
    ELSE [s EXCEPT !.min_distance = @ + 1]

SelectStep(dl, s) ==
    IF Contains(dl, s.min_distance)
    THEN IF ~s.found1
         THEN [s EXCEPT !.id1 = Index(dl, s.min_distance), !.found1 = TRUE]
         ELSE IF s.id1 # Index(dl, s.min_distance)
         THEN [s EXCEPT !.id2 = Index(dl, s.min_distance), !.found2 = TRUE]
         ELSE IF ContainsFrom(dl, s.min_distance, s.id1 + 1)
         THEN [s EXCEPT !.id2 = IndexFrom(dl, s.min_distance, s.id1 + 1),
                        !.found2 = TRUE]
         ELSE [s EXCEPT !.min_distance = @ + 1]
    ELSE [s EXCEPT !.min_distance = @ + 1]

\* The largest value of a row (0 for the empty row).
MaxOf(dl) == IF dl = <<>> THEN 0
             ELSE CHOOSE m \in {dl[k] : k \in 1..Len(dl)} :
                    \A k \in 1..Len(dl) : dl[k] <= m

\* Past the largest value of the row no pass finds anything any more: every
\* later pass only raises the threshold, and the loop never ends.
SelectHangs(dl, s) == ~s.found2 /\ s.min_distance > MaxOf(dl)

RECURSIVE SelectRun(_, _)
SelectRun(dl, s) ==
    IF s.found2 \/ SelectHangs(dl, s) THEN s ELSE SelectRun(dl, SelectStep(dl, s))

\* select_distractors(target_grid, distances): the locals when the loop ends,
\* found2 = FALSE when it never does.
select_distractors(t, dists) == SelectRun(dists[t + 1], SelectInit)

(***************************************************************************)
(* Values of the variables a specification does not use.                   *)
(***************************************************************************)
SelIdle ==
    /\ target_grid = 0 /\ distance_list = <<>>
    /\ id1 = None /\ id2 = None /\ min_distance = 0
    /\ found1 = FALSE /\ found2 = FALSE /\ selected = <<>>
DistIdle == distances = <<>> /\ i_distances = <<>> /\ i = 0 /\ j = 0
SampIdle == edit_distances = <<>> /\ target_grid_id = 0 /\ samples = <<>>
GenIdle ==
    /\ lang = "" /\ grids_file = <<>> /\ group_idx = 0 /\ instances = <<>>
    /\ game_counter = 0 /\ sample_idx = 0 /\ slot = 0

(***************************************************************************)
(* SpecSelect: one call of select_distractors on any row whose entry at    *)
(* the target is 0 (the diagonal of the matrix).  The function reads only  *)
(* distances[target_grid].                                                 *)
(***************************************************************************)
SelectRows == UNION {[1..n -> 0..MaxDist] : n \in 1..MaxRow}

InitSelect ==
    /\ pc = "select_loop"
    /\ distance_list \in SelectRows
    /\ target_grid \in 0..(MaxRow - 1)
    /\ target_grid < Len(distance_list)
    /\ distance_list[target_grid + 1] = 0
    /\ id1 = SelectInit.id1 /\ id2 = SelectInit.id2
    /\ min_distance = SelectInit.min_distance
    /\ found1 = SelectInit.found1 /\ found2 = SelectInit.found2
    /\ selected = <<>>
    /\ grids = <<>> /\ DistIdle /\ SampIdle /\ GenIdle

SelectLocals ==
    [id1 |-> id1, id2 |-> id2, min_distance |-> min_distance,
     found1 |-> found1, found2 |-> found2]

\* One pass of `while not found2`.
SelectIterate ==
    /\ pc = "select_loop"
    /\ ~found2
    /\ min_distance < MinDistanceCap
    /\ LET s == SelectStep(distance_list, SelectLocals) IN
        /\ id1' = s.id1 /\ id2' = s.id2
        /\ min_distance' = s.min_distance
        /\ found1' = s.found1 /\ found2' = s.found2
    /\ UNCHANGED <<pc, target_grid, distance_list, selected,
                   grids, distVars, sampVars, genVars>>

\* return id1, id2
SelectReturn ==
    /\ pc = "select_loop"
    /\ found2
    /\ pc' = "select_returned"
    /\ selected' = <<id1, id2>>
    /\ UNCHANGED <<target_grid, distance_list, id1, id2, min_distance,
                   found1, found2, grids, distVars, sampVars, genVars>>

NextSelect == SelectIterate \/ SelectReturn

SpecSelect == InitSelect /\ [][NextSelect]_vars

\* The loop is sequential code: a pass that can run does run.
SpecSelectFair == SpecSelect /\ WF_vars(NextSelect)

\* The indices of a row whose distance is at least 1.
Positive(dl) == {k \in 0..(Len(dl) - 1) : dl[k + 1] >= 1}
TwoPositive(dl) == Cardinality(Positive(dl)) >= 2

\* C1: whenever select_distractors returns (id1, id2) for a row with a zero
\* at the target, id1 and id2 are indices of the row, both differ from the
\* target and they differ from each other.
C1_Distinct ==
    pc = "select_returned" =>
        /\ selected[1] \in 0..(Len(distance_list) - 1)
        /\ selected[2] \in 0..(Len(distance_list) - 1)
        /\ selected[1] # target_grid
        /\ selected[2] # target_grid
        /\ selected[1] # selected[2]

\* A call returned for a row that holds a second zero, before the target.
C1_Witness ==
    /\ pc = "select_returned"
    /\ \E k \in 0..(Len(distance_list) - 1) :
          k < target_grid /\ distance_list[k + 1] = 0

\* C4: select_distractors returns if and only if the row holds at least two
\* indices with a distance >= 1; otherwise it never returns, raises nothing,
\* and the threshold min_distance keeps growing (here: up to the cap).
C4_ReturnsIffTwoPositive ==
    /\ [](TwoPositive(distance_list) => <>(pc = "select_returned"))
    /\ [](~TwoPositive(distance_list) => pc = "select_loop" /\ ~found2)
    /\ [](~TwoPositive(distance_list) => <>(min_distance = MinDistanceCap))

\* The loop is past every value of a row of two grids and has not returned.
C4_Witness ==
    /\ pc = "select_loop"
    /\ Len(distance_list) = 2
    /\ ~found2
    /\ found1
    /\ min_distance = MinDistanceCap

\* The reference of the design notes: the (distance, index) pairs of all
\* indices but the target, sorted ascending, first two entries.
PairLess(dl, a, b) == dl[a + 1] < dl[b + 1] \/ (dl[a + 1] = dl[b + 1] /\ a < b)
Smallest(dl, S) == CHOOSE a \in S : \A b \in S \ {a} : PairLess(dl, a, b)
SortedReference(t, dl) ==
    LET others == (0..(Len(dl) - 1)) \ {t}
        first  == Smallest(dl, others)
    IN  <<first, Smallest(dl, others \ {first})>>

ZeroOnlyAtTarget(t, dl) == \A k \in 0..(Len(dl) - 1) : dl[k + 1] = 0 <=> k = t

\* C10: on a row whose only 0 is at the target and that has at least two
\* other indices, the loop returns the first two entries of the sorted
\* reference.
C10_MatchesSortedReference ==
    (/\ pc = "select_returned"
     /\ ZeroOnlyAtTarget(target_grid, distance_list)
     /\ Len(distance_list) >= 3)
    => selected = SortedReference(target_grid, distance_list)

\* The scenario of the spec: row [0, 1, 2], target 0, result (1, 2).
C10_Witness ==
    /\ pc = "select_returned"
    /\ distance_list = <<0, 1, 2>>
    /\ target_grid = 0
    /\ selected = <<1, 2>>

(***************************************************************************)
(* Levenshtein.distance(a, b): the least number of single-character        *)
(* insertions, deletions and substitutions that turn a into b.             *)
(***************************************************************************)
Min3(a, b, c) == IF a <= b /\ a <= c THEN a ELSE IF b <= c THEN b ELSE c

RECURSIVE LevenshteinDistance(_, _)
LevenshteinDistance(a, b) ==
    IF a = <<>> THEN Len(b)
    ELSE IF b = <<>> THEN Len(a)
    ELSE IF Head(a) = Head(b) THEN LevenshteinDistance(Tail(a), Tail(b))
    ELSE 1 + Min3(LevenshteinDistance(Tail(a), b),
                  LevenshteinDistance(a, Tail(b)),
                  LevenshteinDistance(Tail(a), Tail(b)))

(***************************************************************************)
(* get_distances: the entry appended for (i, j), and the whole matrix.     *)
(***************************************************************************)
\* A slip: the distance of grid j to the empty string, not to grid i.
MutDistanceEntryOneGrid(gs, a, b) ==
    IF a = b THEN 0 ELSE LevenshteinDistance(<<>>, gs[b + 1])

DistanceEntry(gs, a, b) ==
    IF a = b THEN 0 ELSE LevenshteinDistance(gs[a + 1], gs[b + 1])

get_distances(gs) ==
    [a \in 1..Len(gs) |-> [b \in 1..Len(gs) |-> DistanceEntry(gs, a - 1, b - 1)]]

(***************************************************************************)
(* SpecDistances: one call of get_distances, loop by loop.                 *)
(***************************************************************************)
DistanceGroups == SeqsUpTo(SeqsUpTo(Alphabet, MaxStrLen), MaxDistGrids)

InitDistances ==
    /\ pc = "distances_outer"
    /\ grids \in DistanceGroups
    /\ distances = <<>> /\ i_distances = <<>> /\ i = 0 /\ j = 0
    /\ SelIdle /\ SampIdle /\ GenIdle

\* for i in range(len(grids)): i_distances = []
DistancesOuter ==
    /\ pc = "distances_outer"
    /\ i < Len(grids)
    /\ i_distances' = <<>>
    /\ j' = 0
    /\ pc' = "distances_inner"
    /\ UNCHANGED <<grids, distances, i, selVars, sampVars, genVars>>

\* for j in range(len(grids)): i_distances.append(...)
DistancesInner ==
    /\ pc = "distances_inner"
    /\ j < Len(grids)
    /\ i_distances' = Append(i_distances, DistanceEntry(grids, i, j))
    /\ j' = j + 1
    /\ UNCHANGED <<pc, grids, distances, i, selVars, sampVars, genVars>>

\* distances.append(i_distances)
DistancesAppendRow ==
    /\ pc = "distances_inner"
    /\ j = Len(grids)
    /\ distances' = Append(distances, i_distances)
    /\ i' = i + 1
    /\ pc' = "distances_outer"
    /\ UNCHANGED <<grids, i_distances, j, selVars, sampVars, genVars>>

\* return distances
DistancesReturn ==
    /\ pc = "distances_outer"
    /\ i = Len(grids)
    /\ pc' = "distances_returned"
    /\ UNCHANGED <<grids, distVars, selVars, sampVars, genVars>>

NextDistances ==
    DistancesOuter \/ DistancesInner \/ DistancesAppendRow \/ DistancesReturn

SpecDistances == InitDistances /\ [][NextDistances]_vars

\* C5: get_distances returns an N x N matrix with a zero diagonal whose
\* entry (i, j) equals entry (j, i) and is the edit distance of grid i and
\* grid j; no step of the call changes the input list.
C5_Matrix ==
    /\ [](pc = "distances_returned" =>
            /\ Len(distances) = Len(grids)
            /\ \A a \in 1..Len(grids) :
                /\ Len(distances[a]) = Len(grids)
                /\ distances[a][a] = 0
                /\ \A b \in 1..Len(grids) :
                    /\ distances[a][b] = distances[b][a]
                    /\ distances[a][b] = LevenshteinDistance(grids[a], grids[b]))
    /\ [][grids' = grids]_vars

\* A matrix was returned for two grids of different lengths that are one
\* insertion and one substitution apart.
C5_Witness ==
    /\ pc = "distances_returned"
    /\ Len(grids) = 2
    /\ Len(grids[1]) # Len(grids[2])
    /\ distances[1][2] = 2
    /\ distances[2][1] = 2
    /\ \E k \in 1..Len(grids[1]) : grids[1][k] \notin {grids[2][m] : m \in 1..Len(grids[2])}

(***************************************************************************)
(* generate_samples: the triplet appended for one target, and the whole    *)
(* call.                                                                   *)
(***************************************************************************)
\* A slip: the first distractor is read at the target's index.
MutTripletTargetTwice(gs, t, sel) == <<gs[t + 1], gs[t + 1], gs[sel.id2 + 1]>>

Triplet(gs, t, sel) == <<gs[t + 1], gs[sel.id1 + 1], gs[sel.id2 + 1]>>

RECURSIVE SamplesFrom(_, _, _, _)
SamplesFrom(gs, dists, t, acc) ==
    IF t = Len(gs) THEN [returns |-> TRUE, samples |-> acc]
    ELSE LET sel == select_distractors(t, dists) IN
         IF ~sel.found2 THEN [returns |-> FALSE, samples |-> acc]
         ELSE SamplesFrom(gs, dists, t + 1, Append(acc, Triplet(gs, t, sel)))

\* generate_samples(grids): the list of triplets; returns = FALSE when a call
\* of select_distractors never returns.
generate_samples(gs) == SamplesFrom(gs, get_distances(gs), 0, <<>>)

(***************************************************************************)
(* SpecSamples: one call of generate_samples on any group of grid strings  *)
(* of one length.                                                          *)
(***************************************************************************)
GridStrings == [1..GridLen -> Alphabet]
SampleGroups == SeqsUpTo(GridStrings, MaxGrids)

InitSamples ==
    /\ pc = "samples_start"
    /\ grids \in SampleGroups
    /\ edit_distances = <<>> /\ target_grid_id = 0 /\ samples = <<>>
    /\ SelIdle /\ DistIdle /\ GenIdle

\* samples = []; edit_distances = get_distances(grids)
SamplesDistances ==
    /\ pc = "samples_start"
    /\ samples' = <<>>
    /\ edit_distances' = get_distances(grids)
    /\ target_grid_id' = 0
    /\ pc' = "samples_loop"
    /\ UNCHANGED <<grids, selVars, distVars, genVars>>

\* The call select_distractors(target_grid_id, edit_distances) and its locals
\* when its loop ends.
SamplesCall(sel) ==
    /\ target_grid' = target_grid_id
    /\ distance_list' = edit_distances[target_grid_id + 1]
    /\ id1' = sel.id1 /\ id2' = sel.id2
    /\ min_distance' = sel.min_distance
    /\ found1' = sel.found1 /\ found2' = sel.found2

\* One pass of `for target_grid_id in range(len(grids))`.
SamplesSelect ==
    /\ pc = "samples_loop"
    /\ target_grid_id < Len(grids)
    /\ LET sel == select_distractors(target_grid_id, edit_distances) IN
        /\ sel.found2
        /\ SamplesCall(sel)
        /\ selected' = <<sel.id1, sel.id2>>
        /\ samples' = Append(samples, Triplet(grids, target_grid_id, sel))
    /\ target_grid_id' = target_grid_id + 1
    /\ UNCHANGED <<pc, grids, edit_distances, distVars, genVars>>

\* The pass whose call of select_distractors never returns.
SamplesHang ==
    /\ pc = "samples_loop"
    /\ target_grid_id < Len(grids)
    /\ LET sel == select_distractors(target_grid_id, edit_distances) IN
        /\ ~sel.found2
        /\ SamplesCall(sel)
    /\ pc' = "samples_hang"
    /\ UNCHANGED <<grids, selected, edit_distances, target_grid_id, samples,
                   distVars, genVars>>

\* return samples
SamplesReturn ==
    /\ pc = "samples_loop"
    /\ target_grid_id = Len(grids)
    /\ pc' = "samples_returned"
    /\ UNCHANGED <<grids, selVars, sampVars, distVars, genVars>>

NextSamples == SamplesDistances \/ SamplesSelect \/ SamplesHang \/ SamplesReturn

SpecSamples == InitSamples /\ [][NextSamples]_vars

\* The last call of select_distractors in generate_samples returned.
Selected == pc \in {"samples_loop", "samples_returned"} /\ selected # <<>>

\* C2 as claimed: for every group and every target for which
\* select_distractors returns (id1, id2), matrix[t][id1] <= matrix[t][id2] and
\* no index k outside {t, id1, id2} has matrix[t][k] < matrix[t][id2].
C2_Claimed ==
    Selected =>
        /\ distance_list[selected[1] + 1] <= distance_list[selected[2] + 1]
        /\ \A k \in 0..(Len(distance_list) - 1) :
              k \notin {target_grid, selected[1], selected[2]}
                 => ~(distance_list[k + 1] < distance_list[selected[2] + 1])

\* C2 as amended: matrix[t][id1] <= matrix[t][id2], and no index k outside
\* {t, id1, id2} whose grid differs from the target grid (so that
\* matrix[t][k] >= 1) has matrix[t][k] < matrix[t][id2].
C2_NearestAmongDiffering ==
    Selected =>
        /\ distance_list[selected[1] + 1] <= distance_list[selected[2] + 1]
        /\ \A k \in 0..(Len(distance_list) - 1) :
              (/\ k \notin {target_grid, selected[1], selected[2]}
               /\ grids[k + 1] # grids[target_grid + 1])
                 => ~(distance_list[k + 1] < distance_list[selected[2] + 1])

\* A call returned for a target whose row holds three grids that differ from
\* it, one of them farther away than the two returned ones.
C2_Witness ==
    /\ Selected
    /\ Len(grids) = 4
    /\ \A k \in 0..3 : k # target_grid => distance_list[k + 1] >= 1
    /\ \E k \in 0..3 : distance_list[k + 1] > distance_list[selected[2] + 1]

GroupNames == <<"g1", "g2">>

\* The grid strings of the file: the three grids of the spec's scenario.
GridPool == {<<"0", "0">>, <<"0", "1">>, <<"1", "1">>}
FileGroups == SeqsUpTo(GridPool, GenMaxGrids)

\* generate_samples on every group the file can hold, as a table of
\* (group, result) pairs, and the result for one group.
SamplesTable == {<<g, generate_samples(g)>> : g \in FileGroups}
SamplesOfGroup(g) == (CHOOSE row \in SamplesTable : row[1] = g)[2]

\* MULTILINGUAL_PATTERNS of localization_utils: one table whose p2_options
\* holds three names, and tables with two names, four names and an empty
\* name.
MULTILINGUAL_PATTERNS ==
    ("en"   :> [p1_tag |-> "Expression:", p2_tag |-> "Answer:",
                p2_options |-> <<"f", "|", "s", "|", "t">>]) @@
    ("two"  :> [p1_tag |-> "Expression:", p2_tag |-> "Answer:",
                p2_options |-> <<"f", "|", "s">>]) @@
    ("four" :> [p1_tag |-> "Expression:", p2_tag |-> "Answer:",
                p2_options |-> <<"f", "|", "s", "|", "t", "|", "u">>]) @@
    ("gap"  :> [p1_tag |-> "Expression:", p2_tag |-> "Answer:",
                p2_options |-> <<"f", "|", "|", "t">>])

\* The placeholders of the two prompt templates, in the order of the text.
player_a_prompt_header == <<"TARGET_GRID", "SECOND_GRID", "THIRD_GRID">>
player_b_prompt_header == <<"FIRST_GRID", "SECOND_GRID", "THIRD_GRID">>

\* template.replace(name, value) for every placeholder: the text with each
\* placeholder replaced by its grid.
Replace(template, binding) ==
    [k \in 1..Len(template) |-> binding[template[k]]]

\* str.split(sep): the pieces between the separators, empty ones kept.
RECURSIVE Split(_, _)
Split(s, sep) ==
    IF ~Contains(s, sep) THEN <<s>>
    ELSE LET k == Index(s, sep) IN
         <<SubSeq(s, 1, k)>> \o Split(SubSeq(s, k + 2, Len(s)), sep)

\* _generate_regex(player)
generate_regex(l, player) ==
    IF player = "p1"
    THEN [tag |-> MULTILINGUAL_PATTERNS[l].p1_tag, content |-> <<".", "+">>]
    ELSE [tag |-> MULTILINGUAL_PATTERNS[l].p2_tag,
          content |-> MULTILINGUAL_PATTERNS[l].p2_options]

\* GameInstanceGenerator.add_experiment: a new experiment, appended to
\* self.instances["experiments"].
add_experiment(insts, name) ==
    Append(insts, [name |-> name, game_instances |-> <<>>])

\* GameInstanceGenerator.add_game_instance: the instance, appended to the
\* experiment's game_instances.
add_game_instance(insts, e, inst) ==
    [insts EXCEPT ![e].game_instances = Append(@, inst)]

(***************************************************************************)
(* on_generate: the pieces of one pass of `for i in [1, 2, 3]`.            *)
(***************************************************************************)
\* The instance with its id and the fields of player 1.
Player1Fields(game_id, sample) ==
    [game_id |-> game_id,
     player_1_prompt_header |->
        Replace(player_a_prompt_header,
                [TARGET_GRID |-> sample[1], SECOND_GRID |-> sample[2],
                 THIRD_GRID |-> sample[3]]),
     player_1_target_grid |-> sample[1],
     player_1_second_grid |-> sample[2],
     player_1_third_grid |-> sample[3]]

\* A slip: the triplet is unpacked once per triplet, not once per i, so the
\* reassignment made for i = 2 is still there for i = 3.
MutSlotAssignmentCarried(sample, k, targets) ==
    IF k = 1
    THEN [first_grid |-> sample[1], second_grid |-> sample[2],
          third_grid |-> sample[3], target_grid_name |-> targets[1]]
    ELSE IF k = 2
    THEN [first_grid |-> sample[2], second_grid |-> sample[1],
          third_grid |-> sample[3], target_grid_name |-> targets[2]]
    ELSE [first_grid |-> sample[3], second_grid |-> sample[1],
          third_grid |-> sample[1], target_grid_name |-> targets[3]]

\* The order of the grids for player 2 and the name of the target's place.
SlotAssignment(sample, k, targets) ==
    IF k = 1
    THEN [first_grid |-> sample[1], second_grid |-> sample[2],
          third_grid |-> sample[3], target_grid_name |-> targets[1]]
    ELSE IF k = 2
    THEN [first_grid |-> sample[2], second_grid |-> sample[1],
          third_grid |-> sample[3], target_grid_name |-> targets[2]]
    ELSE [first_grid |-> sample[3], second_grid |-> sample[2],
          third_grid |-> sample[1], target_grid_name |-> targets[3]]

\* The instance with all its fields.
GameInstance(l, game_id, sample, k, targets) ==
    LET p1 == Player1Fields(game_id, sample)
        a  == SlotAssignment(sample, k, targets)
    IN  [game_id |-> game_id,
         player_1_prompt_header |-> p1.player_1_prompt_header,
         player_1_target_grid |-> p1.player_1_target_grid,
         player_1_second_grid |-> p1.player_1_second_grid,
         player_1_third_grid |-> p1.player_1_third_grid,
         player_2_prompt_header |->
            Replace(player_b_prompt_header,
                    [FIRST_GRID |-> a.first_grid, SECOND_GRID |-> a.second_grid,
                     THIRD_GRID |-> a.third_grid]),
         player_2_first_grid |-> a.first_grid,
         player_2_second_grid |-> a.second_grid,
         player_2_third_grid |-> a.third_grid,
         target_grid_name |-> a.target_grid_name,
         player_1_response_pattern |-> generate_regex(l, "p1"),
         player_2_response_pattern |-> generate_regex(l, "p2")]

\* A slip: the counter is set once, before the loop over the groups.
MutGroupCounterKept(counter) == counter

\* game_counter = 0, at the start of every group.
GroupCounter(counter) == 0

(***************************************************************************)
(* Spec: one run of on_generate(lang).  The loop reads the groups of the   *)
(* file one after the other; a group the loop has not reached has no       *)
(* effect on any step before it, so grids_file holds the groups read so    *)
(* far and each group is chosen when the loop reaches it.                   *)
(***************************************************************************)
Init ==
    /\ pc = "generate_groups"
    /\ lang \in DOMAIN MULTILINGUAL_PATTERNS
    /\ grids_file = <<>>
    /\ group_idx = 0
    /\ instances = <<>>
    /\ game_counter = 0 /\ sample_idx = 0 /\ slot = 0
    /\ samples = <<>> /\ edit_distances = <<>> /\ target_grid_id = 0
    /\ grids = <<>>
    /\ SelIdle /\ DistIdle

\* for grids_group in grids.keys(): samples = generate_samples(...);
\* experiment = self.add_experiment(...); game_counter = 0
GenerateGroup ==
    /\ pc = "generate_groups"
    /\ group_idx < Len(GroupNames)
    /\ \E g \in FileGroups :
        LET r == SamplesOfGroup(g) IN
        /\ r.returns
        /\ grids_file' = Append(grids_file, g)
        /\ samples' = r.samples
    /\ instances' = add_experiment(instances, GroupNames[group_idx + 1])
    /\ game_counter' = GroupCounter(game_counter)
    /\ sample_idx' = 0
    /\ slot' = 1
    /\ pc' = "generate_instances"
    /\ UNCHANGED <<lang, group_idx, grids, edit_distances, target_grid_id,
                   selVars, distVars>>

\* The group on which generate_samples never returns.
GenerateGroupHang ==
    /\ pc = "generate_groups"
    /\ group_idx < Len(GroupNames)
    /\ \E g \in FileGroups :
        /\ ~SamplesOfGroup(g).returns
        /\ grids_file' = Append(grids_file, g)
    /\ pc' = "generate_hang"
    /\ UNCHANGED <<lang, group_idx, instances, game_counter, sample_idx, slot,
                   grids, sampVars, selVars, distVars>>

Targets(l) == Split(MULTILINGUAL_PATTERNS[l].p2_options, "|")

\* One pass of `for i in [1, 2, 3]` whose assertion holds.
GenerateInstance ==
    /\ pc = "generate_instances"
    /\ sample_idx < Len(samples)
    /\ Len(Targets(lang)) = 3
    /\ instances' = add_game_instance(instances, Len(instances),
            GameInstance(lang, game_counter, samples[sample_idx + 1], slot,
                         Targets(lang)))
    /\ game_counter' = game_counter + 1
    /\ IF slot = 3
       THEN sample_idx' = sample_idx + 1 /\ slot' = 1
       ELSE sample_idx' = sample_idx /\ slot' = slot + 1
    /\ UNCHANGED <<pc, lang, grids_file, group_idx, grids, samples,
                   edit_distances, target_grid_id, selVars, distVars>>

\* The pass whose `assert len(targets) == 3` fails: the instance is in the
\* experiment with its id and the fields of player 1.
GenerateInstanceFail ==
    /\ pc = "generate_instances"
    /\ sample_idx < Len(samples)
    /\ Len(Targets(lang)) # 3
    /\ instances' = add_game_instance(instances, Len(instances),
            Player1Fields(game_counter, samples[sample_idx + 1]))
    /\ pc' = "generate_failed"
    /\ UNCHANGED <<lang, grids_file, group_idx, game_counter, sample_idx, slot,
                   grids, sampVars, selVars, distVars>>

\* The end of `for sample in samples`: on to the next group.
GenerateGroupEnd ==
    /\ pc = "generate_instances"
    /\ sample_idx = Len(samples)
    /\ group_idx' = group_idx + 1
    /\ pc' = "generate_groups"
    /\ UNCHANGED <<lang, grids_file, instances, game_counter, sample_idx, slot,
                   grids, sampVars, selVars, distVars>>

\* The end of `for grids_group in grids.keys()`: the file has no more groups.
GenerateDone ==
    /\ pc = "generate_groups"
    /\ pc' = "generate_done"
    /\ UNCHANGED <<lang, grids_file, group_idx, instances, game_counter,
                   sample_idx, slot, grids, sampVars, selVars, distVars>>

Next ==
    \/ GenerateGroup
    \/ GenerateGroupHang
    \/ GenerateInstance
    \/ GenerateInstanceFail
    \/ GenerateGroupEnd
    \/ GenerateDone

Spec == Init /\ [][Next]_vars

(***************************************************************************)
(* The instances of the output, by experiment e and place p (both from 1). *)
(***************************************************************************)
Experiments == 1..Len(instances)
PlacesOf(e) == 1..Len(instances[e].game_instances)
InstanceAt(e, p) == instances[e].game_instances[p]

\* The instance has the fields of player 2.
Complete(inst) == "target_grid_name" \in DOMAIN inst

\* The triplets generate_samples returned for the group of experiment e; the
\* instance at place p was built from triplet TripletOf(p), for i = SlotOf(p).
SamplesOf(e) == SamplesOfGroup(grids_file[e]).samples
TripletOf(p) == ((p - 1) \div 3) + 1
SlotOf(p) == ((p - 1) % 3) + 1

Player1Grids(inst) ==
    <<inst.player_1_target_grid, inst.player_1_second_grid, inst.player_1_third_grid>>
Player2Grids(inst) ==
    <<inst.player_2_first_grid, inst.player_2_second_grid, inst.player_2_third_grid>>

\* The experiments whose group the loop has finished.
Finished == 1..group_idx

\* C3: the instance built from the triplet (target, second, third) for i has
\* the player-2 slots (target, second, third) for i = 1, (second, target,
\* third) for i = 2 and (third, second, target) for i = 3, in each case from
\* the triplet as generate_samples returned it; its target_grid_name is the
\* i-th name of p2_options; its player-1 fields are (target, second, third).
C3_SlotAssignment ==
    \A e \in Experiments :
        LET smp == SamplesOf(e) IN
        \A p \in PlacesOf(e) :
            LET inst == InstanceAt(e, p)
                tr   == smp[TripletOf(p)]
                k    == SlotOf(p)
            IN  Complete(inst) =>
                /\ Player2Grids(inst) =
                     (IF k = 1 THEN <<tr[1], tr[2], tr[3]>>
                      ELSE IF k = 2 THEN <<tr[2], tr[1], tr[3]>>
                      ELSE <<tr[3], tr[2], tr[1]>>)
                /\ inst.target_grid_name = Targets(lang)[k]
                /\ Player1Grids(inst) = tr

\* The spec's scenario: p2_options of three names, the variant i = 2 of a
\* triplet of three different grids, followed by the variant i = 3 and by the
\* variants of the next triplet.
C3_Witness ==
    /\ lang = "en"
    /\ \E e \in Experiments :
        /\ Len(instances[e].game_instances) >= 6
        /\ Complete(InstanceAt(e, 6))
        /\ InstanceAt(e, 2).target_grid_name = <<"s">>
        /\ Cardinality({SamplesOf(e)[1][k] : k \in 1..3}) = 3
        /\ Player2Grids(InstanceAt(e, 2)) =
              <<SamplesOf(e)[1][2], SamplesOf(e)[1][1], SamplesOf(e)[1][3]>>

\* C6: every triplet of a finished group has exactly 3 instances, and in
\* every instance the target grid is in exactly one of the three player-2
\* slots, slot i, with target_grid_name the i-th name of p2_options.
C6_TargetInOneSlot ==
    \A e \in Experiments :
        LET smp == SamplesOf(e) IN
        /\ e \in Finished => Len(instances[e].game_instances) = 3 * Len(smp)
        /\ \A p \in PlacesOf(e) :
            LET inst == InstanceAt(e, p) IN
            Complete(inst) =>
                /\ inst.player_1_target_grid = smp[TripletOf(p)][1]
                /\ {k \in 1..3 : Player2Grids(inst)[k] = inst.player_1_target_grid}
                      = {SlotOf(p)}
                /\ inst.target_grid_name = Targets(lang)[SlotOf(p)]

\* A finished run whose first group gave three triplets and nine instances.
C6_Witness ==
    /\ pc = "generate_done"
    /\ Len(instances) >= 1
    /\ Len(grids_file[1]) = 3
    /\ Len(instances[1].game_instances) = 9
    /\ \A p \in 1..9 : Complete(instances[1].game_instances[p])

\* p2_options does not split into exactly 3 non-empty names.
Malformed(l) ==
    \/ Len(Targets(l)) # 3
    \/ \E k \in 1..Len(Targets(l)) : Targets(l)[k] = <<>>

\* C8 as claimed: with a malformed p2_options no instance is in the output
\* collection, at the failure or after a completed run.
C8_Claimed ==
    Malformed(lang) => \A e \in Experiments : instances[e].game_instances = <<>>

\* C9: one experiment per group on which generate_samples returned, named
\* after the group; the instance at place p (from 0) has game_id p and the
\* grid p div 3 of the group as its target; a finished group of N grids has
\* exactly 3N instances.
C9_Counter ==
    /\ Len(instances) =
          group_idx + (IF pc \in {"generate_instances", "generate_failed"}
                       THEN 1 ELSE 0)
    /\ \A e \in Experiments :
        /\ instances[e].name = GroupNames[e]
        /\ e \in Finished =>
              Len(instances[e].game_instances) = 3 * Len(grids_file[e])
        /\ \A p \in PlacesOf(e) :
            /\ InstanceAt(e, p).game_id = p - 1
            /\ InstanceAt(e, p).player_1_target_grid
                  = grids_file[e][TripletOf(p)]

\* A finished run over two groups of three grids: nine instances each, the
\* second group's ids start at 0 again.
C9_Witness ==
    /\ pc = "generate_done"
    /\ Len(instances) = 2
    /\ \A e \in 1..2 :
        /\ Len(grids_file[e]) = 3
        /\ Len(instances[e].game_instances) = 9
        /\ instances[e].game_instances[1].game_id = 0
        /\ instances[e].game_instances[9].game_id = 8

====
